---- MODULE Spec2Model ----
(***************************************************************************)
(* A model of libiproute2's FOU command (ip/ipfou.c) and bridge-port link  *)
(* options (ip/iplink_bridge_slave.c): token grammars, request building,   *)
(* the show dump exchange and the two output modes.                        *)
(***************************************************************************)
EXTENDS Integers, Sequences, FiniteSets, TLC

VARIABLES
    bigEndian,    \* byte order of the host the build runs on
    argv,         \* the tokens handed to the command (argv[0] is the sub-command for FOU)
    pc,           \* position of the invocation
    genl_family,  \* ipfou.c: static int genl_family
    resolves,     \* number of calls of genl_init_handle so far
    sent,         \* requests handed to the transport (rtnl_talk / rtnl_send), in order
    parsed,       \* what the grammar's parse_opt left behind (return code, message attributes)
    result,       \* how the invocation ended: return value or exit code
    received,     \* envelopes the dump loop has received, in order
    calls,        \* per-message callback invocations: the envelope and what was printed
    loopExits,    \* number of times the dump receive loop has exited
    opts,         \* bridge port: the keyword/value options argv was flattened from
    mask,         \* a 16-bit forwarding mask handed to _bitmask2str
    str,          \* the buffer _bitmask2str filled
    tb,           \* a decoded attribute table handed to a print function
    outText,      \* what the print function emitted in plain-text mode
    outJson,      \* what the print function emitted in structured mode
    json          \* br_common.h: the global output-mode switch

vars == <<bigEndian, argv, pc, genl_family, resolves, sent, parsed, result,
          received, calls, loopExits, opts, mask, str, tb, outText, outJson, json>>

\* the state of the FOU invocation, and the rest
fouVars == <<genl_family, resolves, sent, result, received, calls, loopExits>>
otherVars == <<opts, mask, str, tb, outText, outJson>>

(***************************************************************************)
(* Bounds of the model.                                                    *)
(***************************************************************************)
MaxFouOpts == 3     \* options on a FOU command line
MaxRecv == 3        \* envelopes received in one dump
MaxBrOpts == 2      \* options on a bridge-port command line
MaxPresent == 2     \* attributes present in a bridge-port table
PortTokMax == 65537 \* largest numeric port token tried

(***************************************************************************)
(* Tokens.  A token is a word or the text of a number; a number's text is  *)
(* kept as the value strtoul reads from it.                                *)
(***************************************************************************)
Word(s) == [k |-> "word", s |-> s, n |-> 0]
Num(n) == [k |-> "num", s |-> "", n |-> n]
\* the text of a number of more than 32 bits (the numbers Num carries are below 2^31)
Huge == [k |-> "huge", s |-> "", n |-> 0]

RECURSIVE Flatten(_)
Flatten(ss) == IF ss = <<>> THEN <<>> ELSE Head(ss) \o Flatten(Tail(ss))

SeqsUpTo(S, n) == UNION {[1..m -> S] : m \in 0..n}

\* utils.c matches(): 0 when the token is the keyword.  Abbreviated keywords
\* (a token that is a proper prefix of the pattern) are not in the token sets.
matches(arg, pattern) == IF arg.k = "word" /\ arg.s = pattern THEN 0 ELSE 1

\* utils.c get_u8 / get_u16 / get_u32: err is nonzero when the text is no
\* number or the number does not fit the width.
get_unsigned(arg, width) ==
    IF arg.k = "num" /\ arg.n >= 0 /\ (width = 32 \/ arg.n < 2^width)
    THEN [err |-> 0, val |-> arg.n]
    ELSE [err |-> -1, val |-> 0]

get_u8(arg) == get_unsigned(arg, 8)
get_u16(arg) == get_unsigned(arg, 16)
get_u32(arg) == get_unsigned(arg, 32)

\* 16-bit byte swap
bswap16(v) == (v % 256) * 256 + (v \div 256)

\* htons / ntohs: the identity on a big-endian host, a byte swap otherwise
htons(v) == IF bigEndian THEN v ELSE bswap16(v)
ntohs(v) == IF bigEndian THEN v ELSE bswap16(v)

\* utils.c get_be16: get_u16 followed by the host-to-network conversion
get_be16(arg) ==
    LET r == get_u16(arg)
    IN IF r.err = 0 THEN [err |-> 0, val |-> htons(r.val)] ELSE r

(***************************************************************************)
(* Attribute codec (libnetlink): a record is its type and payload bytes;   *)
(* integers are stored in host byte order.                                 *)
(***************************************************************************)
RECURSIVE HostBytesLE(_, _)
HostBytesLE(v, n) == IF n = 0 THEN <<>> ELSE <<v % 256>> \o HostBytesLE(v \div 256, n - 1)

Reverse(s) == [i \in 1..Len(s) |-> s[Len(s) + 1 - i]]

HostBytes(v, n) == IF bigEndian THEN Reverse(HostBytesLE(v, n)) ELSE HostBytesLE(v, n)

RECURSIVE FromBytesLE(_)
FromBytesLE(b) == IF b = <<>> THEN 0 ELSE Head(b) + 256 * FromBytesLE(Tail(b))

FromHostBytes(b) == IF bigEndian THEN FromBytesLE(Reverse(b)) ELSE FromBytesLE(b)

addattr(attrs, type) == Append(attrs, [type |-> type, payload |-> <<>>])
addattr8(attrs, type, v) == Append(attrs, [type |-> type, payload |-> HostBytes(v, 1)])
addattr16(attrs, type, v) == Append(attrs, [type |-> type, payload |-> HostBytes(v, 2)])
addattr32(attrs, type, v) == Append(attrs, [type |-> type, payload |-> HostBytes(v, 4)])

rta_getattr_u8(rta) == FromHostBytes(SubSeq(rta.payload, 1, 1))
rta_getattr_u16(rta) == FromHostBytes(SubSeq(rta.payload, 1, 2))
rta_getattr_u32(rta) == FromHostBytes(SubSeq(rta.payload, 1, 4))

(***************************************************************************)
(* FOU: constants of the wire vocabulary used by ipfou.c                   *)
(***************************************************************************)
AF_INET == 2
AF_INET6 == 10
FOU_ENCAP_DIRECT == 1
FOU_ENCAP_GUE == 2

\* the system protocol-name table getprotobyname consults (an oracle)
ProtoByName == [gre |-> 47, ipip |-> 4, ip |-> 0]

getprotobyname(arg) ==
    IF arg.k = "word" /\ arg.s \in DOMAIN ProtoByName
    THEN [found |-> TRUE, p_proto |-> ProtoByName[arg.s]]
    ELSE [found |-> FALSE, p_proto |-> 0]

\* family ids the kernel peer may hand out for the name "fou"
FamilyIds == {23, 29}

\* ipfou.c FOU_REQUEST: the envelope, its type taken from genl_family as it
\* is when the request is declared
FouRequestBadType(cmd, flags) ==
    [type |-> -1, cmd |-> cmd, flags |-> flags, attrs |-> <<>>]

FOU_REQUEST(cmd, flags) ==
    [type |-> genl_family, cmd |-> cmd, flags |-> flags, attrs |-> <<>>]

(***************************************************************************)
(* fou_parse_opt: the scan over the tokens, then the checks and the        *)
(* attribute appends.  status "exit" is a call that does not return        *)
(* (invarg, incomplete_command, usage): the process ends with code -1.     *)
(***************************************************************************)
\* the locals of fou_parse_opt at entry; port and ipproto are uninitialised
\* there and are read only once their _set flag is 1
FouLocals ==
    [port |-> 0, port_set |-> 0, ipproto |-> 0, ipproto_set |-> 0,
     gue_set |-> FALSE, family |-> AF_INET, status |-> "scan"]

FouExit(st) == [st EXCEPT !.status = "exit"]

RECURSIVE fou_scan(_, _, _)
fou_scan(args, i, st) ==
    IF i > Len(args) THEN st
    ELSE IF matches(args[i], "port") = 0 THEN
        IF i + 1 > Len(args) THEN FouExit(st)          \* NEXT_ARG: incomplete_command
        ELSE LET r == get_be16(args[i + 1])
             IN IF r.err # 0 \/ r.val = 0 THEN FouExit(st)  \* invarg("invalid port")
                ELSE fou_scan(args, i + 2, [st EXCEPT !.port = r.val, !.port_set = 1])
    ELSE IF matches(args[i], "ipproto") = 0 THEN
        IF i + 1 > Len(args) THEN FouExit(st)
        ELSE LET servptr == getprotobyname(args[i + 1])
                 r == get_u8(args[i + 1])
             IN IF servptr.found
                THEN fou_scan(args, i + 2,
                              [st EXCEPT !.ipproto = servptr.p_proto, !.ipproto_set = 1])
                ELSE IF r.err # 0 \/ r.val = 0 THEN FouExit(st)  \* invarg("invalid ipproto")
                ELSE fou_scan(args, i + 2, [st EXCEPT !.ipproto = r.val, !.ipproto_set = 1])
    ELSE IF matches(args[i], "gue") = 0 THEN
        fou_scan(args, i + 1, [st EXCEPT !.gue_set = TRUE])
    ELSE IF matches(args[i], "-6") = 0 THEN
        fou_scan(args, i + 1, [st EXCEPT !.family = AF_INET6])
    ELSE FouExit(st)                                   \* unknown command: usage()

FouParseResult(st, ret, exited, attrs) ==
    [ret |-> ret, exited |-> exited, attrs |-> attrs,
     port_set |-> st.port_set, ipproto_set |-> st.ipproto_set, gue_set |-> st.gue_set]

\* a build that appends the port before the mutual-exclusion check
FouBuildAppendsEarly(st, adding) ==
    IF st.port_set = 0 THEN FouParseResult(st, -1, FALSE, <<>>)
    ELSE IF st.ipproto_set = 0 /\ ~st.gue_set /\ adding THEN FouParseResult(st, -1, FALSE, <<>>)
    ELSE IF st.ipproto_set = 1 /\ st.gue_set
        THEN FouParseResult(st, -1, FALSE, addattr16(<<>>, "FOU_ATTR_PORT", st.port))
    ELSE FouParseResult(st, 0, FALSE, addattr16(<<>>, "FOU_ATTR_PORT", st.port))

\* ipfou.c lines 89..113
fou_build(st, adding) ==
    IF st.port_set = 0 THEN FouParseResult(st, -1, FALSE, <<>>)
    ELSE IF st.ipproto_set = 0 /\ ~st.gue_set /\ adding THEN FouParseResult(st, -1, FALSE, <<>>)
    ELSE IF st.ipproto_set = 1 /\ st.gue_set THEN FouParseResult(st, -1, FALSE, <<>>)
    ELSE LET type == IF st.gue_set THEN FOU_ENCAP_GUE ELSE FOU_ENCAP_DIRECT
             a1 == addattr16(<<>>, "FOU_ATTR_PORT", st.port)
             a2 == addattr8(a1, "FOU_ATTR_TYPE", type)
             a3 == addattr8(a2, "FOU_ATTR_AF", st.family)
             a4 == IF st.ipproto_set = 1 THEN addattr8(a3, "FOU_ATTR_IPPROTO", st.ipproto)
                   ELSE a3
         IN FouParseResult(st, 0, FALSE, a4)

fou_parse_opt(args, adding) ==
    LET st == fou_scan(args, 1, FouLocals)
    IN IF st.status = "exit" THEN FouParseResult(st, -1, TRUE, <<>>)
       ELSE fou_build(st, adding)

NoParse ==
    [ret |-> 0, exited |-> FALSE, attrs |-> <<>>,
     port_set |-> 0, ipproto_set |-> 0, gue_set |-> FALSE]

(***************************************************************************)
(* Output (json_print): a print call emits one item in structured mode     *)
(* when its type is PRINT_ANY or PRINT_JSON (the key and the value) and    *)
(* one item in plain-text mode when it is PRINT_ANY or PRINT_FP (the       *)
(* format and the value).                                                  *)
(***************************************************************************)
Emit(js, t, key, fmt, val) ==
    IF js
    THEN IF t \in {"PRINT_ANY", "PRINT_JSON"} THEN <<[name |-> key, val |-> val]>> ELSE <<>>
    ELSE IF t \in {"PRINT_ANY", "PRINT_FP"} THEN <<[name |-> fmt, val |-> val]>> ELSE <<>>

\* a printed value: a number (n), a string (s) or a character sequence (cs)
NumVal(n) == [n |-> n, s |-> "", cs |-> <<>>]
StrVal(s) == [n |-> 0, s |-> s, cs |-> <<>>]
CharsVal(cs) == [n |-> 0, s |-> "", cs |-> cs]
NoVal == [n |-> 0, s |-> "", cs |-> <<>>]

\* libnetlink parse_rtattr: the table of the records whose type is known,
\* one record per type (the first in the buffer)
parse_rtattr(attrs, known) ==
    LET present == {attrs[i].type : i \in 1..Len(attrs)} \cap known
        first(t) == CHOOSE i \in 1..Len(attrs) :
                        /\ attrs[i].type = t
                        /\ \A j \in 1..(i - 1) : attrs[j].type # t
    IN [t \in present |-> attrs[first(t)]]

FouAttrTypes == {"FOU_ATTR_PORT", "FOU_ATTR_AF", "FOU_ATTR_IPPROTO", "FOU_ATTR_TYPE"}

family_name(f) == IF f = AF_INET THEN "inet" ELSE IF f = AF_INET6 THEN "inet6" ELSE "???"

\* the display path's port decode with the network-to-host conversion left out
FouShownPortNoSwap(rta) == rta_getattr_u16(rta)

\* ipfou.c line 160: ntohs(rta_getattr_u16(tb[FOU_ATTR_PORT]))
FouShownPort(rta) == ntohs(rta_getattr_u16(rta))

\* ipfou.c lines 157..180: what print_fou_mapping emits for a decoded table
FouPrintTable(t, js) ==
    LET has(a) == a \in DOMAIN t
        p1 == IF has("FOU_ATTR_PORT")
              THEN Emit(js, "PRINT_ANY", "port", "port %u",
                        NumVal(FouShownPort(t["FOU_ATTR_PORT"])))
              ELSE <<>>
        p2 == IF has("FOU_ATTR_TYPE") /\ rta_getattr_u8(t["FOU_ATTR_TYPE"]) = FOU_ENCAP_GUE
              THEN Emit(js, "PRINT_ANY", "gue", " gue", NoVal)
              ELSE IF has("FOU_ATTR_IPPROTO")
              THEN Emit(js, "PRINT_ANY", "ipproto", " ipproto %u",
                        NumVal(rta_getattr_u8(t["FOU_ATTR_IPPROTO"])))
              ELSE <<>>
        p3 == IF has("FOU_ATTR_AF")
              THEN LET family == rta_getattr_u8(t["FOU_ATTR_AF"])
                   IN Emit(js, "PRINT_JSON", "family", "", StrVal(family_name(family)))
                      \o (IF family = AF_INET6
                          THEN Emit(js, "PRINT_FP", "", " -6", NoVal)
                          ELSE <<>>)
              ELSE <<>>
        p4 == Emit(js, "PRINT_FP", "", "\n", NoVal)
    IN p1 \o p2 \o p3 \o p4

\* ipfou.c print_fou_mapping: n is an envelope [type, short, attrs], where
\* short says nlmsg_len is below the generic header's length
print_fou_mapping(n, js) ==
    IF n.type # genl_family THEN [ret |-> 0, out |-> <<>>]
    ELSE IF n.short THEN [ret |-> -1, out |-> <<>>]
    ELSE [ret |-> 0, out |-> FouPrintTable(parse_rtattr(n.attrs, FouAttrTypes), js)]

(***************************************************************************)
(* The FOU invocation, do_ipfou.  argv[1] is the sub-command.              *)
(***************************************************************************)
FouPortVals == {Num(0), Num(80), Num(65536)}
FouProtoVals == {Word("gre"), Word("ip"), Num(47), Num(0), Num(256)}

FouItems ==
    {<<Word("port"), v>> : v \in FouPortVals}
    \cup {<<Word("ipproto"), v>> : v \in FouProtoVals}
    \cup {<<Word("port")>>, <<Word("ipproto")>>, <<Word("gue")>>, <<Word("-6")>>,
          <<Word("bogus")>>}

FouArgs(n) == {Flatten(ss) : ss \in SeqsUpTo(FouItems, n)}

FouArgv ==
    {<<>>}
    \cup {<<Word(c)>> \o a : c \in {"add", "delete"}, a \in FouArgs(MaxFouOpts)}
    \cup {<<Word(c)>> \o a : c \in {"show", "help", "frob"}, a \in FouArgs(1)}

Running == [kind |-> "running", code |-> 0]
Returned(c) == [kind |-> "return", code |-> c]
Exited(c) == [kind |-> "exit", code |-> c]

IdleFou ==
    /\ genl_family = -1
    /\ resolves = 0
    /\ sent = <<>>
    /\ result = Running
    /\ received = <<>>
    /\ calls = <<>>
    /\ loopExits = 0

IdleOther ==
    /\ opts = <<>>
    /\ mask = 0
    /\ str = <<>>
    /\ tb = <<>>
    /\ outText = <<>>
    /\ outJson = <<>>

Init ==
    /\ bigEndian \in BOOLEAN
    /\ argv \in FouArgv
    /\ json \in (IF Len(argv) = 1 THEN BOOLEAN ELSE {FALSE})  \* read by do_show alone
    /\ pc = "start"
    /\ parsed = NoParse
    /\ IdleFou
    /\ IdleOther

\* do_ipfou lines 214..218: no sub-command, or help
Usage ==
    /\ pc = "start"
    /\ IF Len(argv) < 1 THEN TRUE ELSE matches(argv[1], "help") = 0
    /\ pc' = "exited"
    /\ result' = Exited(-1)
    /\ UNCHANGED <<bigEndian, argv, genl_family, resolves, sent, parsed, received,
                   calls, loopExits, otherVars, json>>

NeedsFamily == pc = "start" /\ Len(argv) >= 1 /\ matches(argv[1], "help") # 0

\* do_ipfou line 220: genl_init_handle resolves the name and stores the id
ResolveOk ==
    /\ NeedsFamily
    /\ \E id \in FamilyIds : genl_family' = id
    /\ resolves' = resolves + 1
    /\ pc' = "dispatch"
    /\ UNCHANGED <<bigEndian, argv, sent, parsed, result, received, calls, loopExits,
                   otherVars, json>>

\* do_ipfou lines 220..221: the name is unknown to the peer
ResolveFails ==
    /\ NeedsFamily
    /\ resolves' = resolves + 1
    /\ pc' = "exited"
    /\ result' = Exited(1)
    /\ UNCHANGED <<bigEndian, argv, genl_family, sent, parsed, received, calls,
                   loopExits, otherVars, json>>

\* do_add / do_del: the request is declared, the tokens parsed, the parse's
\* return value dropped, and the message handed to rtnl_talk
FouTalk(cmd, adding) ==
    LET req == FOU_REQUEST(cmd, {"NLM_F_REQUEST"})
        p == fou_parse_opt(Tail(argv), adding)
    IN /\ parsed' = p
       /\ IF p.exited
          THEN /\ pc' = "exited"
               /\ result' = Exited(-1)
               /\ sent' = sent
          ELSE /\ pc' = "returned"
               /\ sent' = Append(sent, [req EXCEPT !.attrs = p.attrs])
               /\ \E talk \in {0, -1} : result' = Returned(IF talk < 0 THEN -2 ELSE 0)
       /\ UNCHANGED <<bigEndian, argv, genl_family, resolves, received, calls, loopExits,
                      otherVars, json>>

DoAdd == pc = "dispatch" /\ matches(argv[1], "add") = 0 /\ FouTalk("FOU_CMD_ADD", TRUE)

DoDel ==
    /\ pc = "dispatch"
    /\ matches(argv[1], "add") # 0
    /\ matches(argv[1], "delete") = 0
    /\ FouTalk("FOU_CMD_DEL", FALSE)

IsShow ==
    /\ pc = "dispatch"
    /\ matches(argv[1], "add") # 0
    /\ matches(argv[1], "delete") # 0
    /\ matches(argv[1], "show") = 0

\* do_show lines 189..193
DoShowArgs ==
    /\ IsShow
    /\ Len(argv) - 1 > 0
    /\ pc' = "returned"
    /\ result' = Returned(-1)
    /\ UNCHANGED <<bigEndian, argv, genl_family, resolves, sent, parsed, received,
                   calls, loopExits, otherVars, json>>

\* do_show lines 195..198: rtnl_send fails
DoShowSendFails ==
    /\ IsShow
    /\ Len(argv) - 1 = 0
    /\ pc' = "exited"
    /\ result' = Exited(1)
    /\ UNCHANGED <<bigEndian, argv, genl_family, resolves, sent, parsed, received,
                   calls, loopExits, otherVars, json>>

\* do_show lines 195..201: the dump request is sent; in structured mode
\* new_json_obj may fail, and do_show returns -1
DoShowSend ==
    /\ IsShow
    /\ Len(argv) - 1 = 0
    /\ sent' = Append(sent, FOU_REQUEST("FOU_CMD_GET", {"NLM_F_REQUEST", "NLM_F_DUMP"}))
    /\ \E jsonOk \in BOOLEAN :
          /\ jsonOk \/ json
          /\ IF jsonOk THEN pc' = "dump" /\ result' = result
             ELSE pc' = "returned" /\ result' = Returned(-1)
    /\ UNCHANGED <<bigEndian, argv, genl_family, resolves, parsed, received, calls,
                   loopExits, otherVars, json>>

(***************************************************************************)
(* The dump exchange.  rtnl_dump_filter receives envelopes one at a time   *)
(* and hands each data envelope to the callback, until the dump-done       *)
(* marker, an error envelope or a failing callback ends the loop.          *)
(***************************************************************************)
SampleAttrs ==
    {<<>>,
     addattr8(addattr8(addattr16(<<>>, "FOU_ATTR_PORT", htons(80)),
                       "FOU_ATTR_TYPE", FOU_ENCAP_GUE), "FOU_ATTR_AF", AF_INET6)}

Envelopes ==
    {[kind |-> "data", type |-> t, short |-> FALSE, attrs |-> a] :
        t \in FamilyIds, a \in SampleAttrs}
    \cup {[kind |-> "data", type |-> t, short |-> TRUE, attrs |-> <<>>] : t \in FamilyIds}
    \cup {[kind |-> k, type |-> 0, short |-> FALSE, attrs |-> <<>>] : k \in {"done", "error"}}

\* one receive of rtnl_dump_filter's loop
DumpRecv ==
    /\ pc = "dump"
    /\ Len(received) < MaxRecv
    /\ \E env \in Envelopes :
          /\ received' = Append(received, env)
          /\ IF env.kind = "done"
             THEN pc' = "dump_ok" /\ loopExits' = loopExits + 1 /\ calls' = calls
             ELSE IF env.kind = "error"
             THEN pc' = "dump_err" /\ loopExits' = loopExits + 1 /\ calls' = calls
             ELSE LET r == print_fou_mapping(env, json)
                  IN /\ calls' = Append(calls, [at |-> Len(received) + 1, ret |-> r.ret,
                                                out |-> r.out])
                     /\ IF r.ret < 0
                        THEN pc' = "dump_err" /\ loopExits' = loopExits + 1
                        ELSE pc' = "dump" /\ loopExits' = loopExits
    /\ UNCHANGED <<bigEndian, argv, genl_family, resolves, sent, parsed, result,
                   otherVars, json>>

\* a do_show that goes back to receiving after a dump that ended well
ShowReceivesAgain(ok) ==
    IF ok THEN [pc |-> "dump", result |-> Running]
    ELSE [pc |-> "returned", result |-> Returned(1)]

\* do_show lines 202..209: what follows rtnl_dump_filter's return
do_show_after_dump(ok) ==
    IF ok THEN [pc |-> "returned", result |-> Returned(0)]
    ELSE [pc |-> "returned", result |-> Returned(1)]

DoShowFinish ==
    /\ pc \in {"dump_ok", "dump_err"}
    /\ LET nx == do_show_after_dump(pc = "dump_ok")
       IN pc' = nx.pc /\ result' = nx.result
    /\ UNCHANGED <<bigEndian, argv, genl_family, resolves, sent, parsed, received,
                   calls, loopExits, otherVars, json>>

\* do_ipfou lines 230..232
UnknownCommand ==
    /\ pc = "dispatch"
    /\ matches(argv[1], "add") # 0
    /\ matches(argv[1], "delete") # 0
    /\ matches(argv[1], "show") # 0
    /\ pc' = "exited"
    /\ result' = Exited(-1)
    /\ UNCHANGED <<bigEndian, argv, genl_family, resolves, sent, parsed, received,
                   calls, loopExits, otherVars, json>>

Next ==
    \/ Usage
    \/ ResolveOk
    \/ ResolveFails
    \/ DoAdd
    \/ DoDel
    \/ DoShowArgs
    \/ DoShowSendFails
    \/ DoShowSend
    \/ DumpRecv
    \/ DoShowFinish
    \/ UnknownCommand

Spec == Init /\ [][Next]_vars

(***************************************************************************)
(* Claims about the FOU invocation (specification Spec).                   *)
(***************************************************************************)
\* whether the tokens hold the keyword kw in keyword position: port and
\* ipproto take the token after them as their value
RECURSIVE HasKeyword(_, _)
HasKeyword(args, kw) ==
    IF args = <<>> THEN FALSE
    ELSE IF Head(args) = Word(kw) THEN TRUE
    ELSE IF Head(args) \in {Word("port"), Word("ipproto")} /\ Len(args) >= 2
    THEN HasKeyword(Tail(Tail(args)), kw)
    ELSE HasKeyword(Tail(args), kw)

SubCommand == IF argv = <<>> THEN "" ELSE argv[1].s
Finished == pc \in {"returned", "exited"}
\* the sub-command's function was entered: the family resolved and dispatch done
SubCommandRan == Finished /\ genl_family # -1

\* C1: for add and delete, when building the request from the tokens fails,
\* no request is handed to the kernel peer.
C1_NoRequestAfterFailedParse ==
    (SubCommandRan /\ SubCommand \in {"add", "delete"} /\ parsed.ret # 0)
        => sent = <<>>

\* C2: an add whose tokens set both ipproto and gue fails to build, and the
\* message holds no attribute when it fails.
C2_BothSetFailsBeforeAppend ==
    (SubCommandRan /\ SubCommand = "add"
        /\ HasKeyword(Tail(argv), "ipproto") /\ HasKeyword(Tail(argv), "gue"))
        => /\ parsed.ret # 0
           /\ parsed.attrs = <<>>

C2_Witness ==
    /\ pc = "returned"
    /\ SubCommand = "add"
    /\ HasKeyword(Tail(argv), "ipproto") /\ HasKeyword(Tail(argv), "gue")
    /\ parsed.port_set = 1 /\ parsed.ipproto_set = 1 /\ parsed.gue_set
    /\ parsed.ret = -1

\* C3: for add, delete and show, an invocation whose tokens set no port ends
\* in a failure that is neither 0 nor -2.
C3_NoPortIsUsageError ==
    (SubCommandRan /\ SubCommand \in {"add", "delete", "show"}
        /\ ~HasKeyword(Tail(argv), "port"))
        => result.code \notin {0, -2}

\* C4: in the show dump the callback runs only for envelopes received before
\* the dump-done marker; once the marker is received the loop has exited
\* exactly once, and nothing is received or called back after it.
DoneMarks == {i \in 1..Len(received) : received[i].kind = "done"}

C4_NoCallbackAfterDumpDone ==
    /\ \A i \in DoneMarks : i = Len(received)
    /\ \A c \in 1..Len(calls) :
          /\ received[calls[c].at].kind = "data"
          /\ \A i \in DoneMarks : calls[c].at < i
    /\ DoneMarks # {} => (loopExits = 1 /\ pc \in {"dump_ok", "returned"})
    /\ loopExits <= 1

C4_Witness ==
    /\ pc = "returned"
    /\ DoneMarks # {}
    /\ Len(calls) >= 2
    /\ result = Returned(0)

IpprotoRecords == {i \in 1..Len(parsed.attrs) : parsed.attrs[i].type = "FOU_ATTR_IPPROTO"}

C11_IpprotoInRange ==
    (SubCommandRan /\ SubCommand \in {"add", "delete"}
        /\ HasKeyword(Tail(argv), "ipproto") /\ parsed.ret = 0)
        => /\ IpprotoRecords # {}
           /\ \A i \in IpprotoRecords : rta_getattr_u8(parsed.attrs[i]) \in 1..255

(***************************************************************************)
(* Bridge port: bridge_slave_parse_opt (iplink_bridge_slave.c).            *)
(* A result is [ret, exited, attrs]: the return value, whether a call that *)
(* does not return ended the process, and the message's attributes.        *)
(***************************************************************************)
BrOk(attrs) == [ret |-> 0, exited |-> FALSE, attrs |-> attrs]
BrErr(attrs) == [ret |-> -1, exited |-> FALSE, attrs |-> attrs]
\* NEXT_ARG with no token left (incomplete_command), or invarg
BrExit(attrs) == [ret |-> -1, exited |-> TRUE, attrs |-> attrs]
\* parse_opt's "return -1" after a failed bridge_slave_parse_on_off
BrFail(r) == [ret |-> -1, exited |-> r.exited, attrs |-> r.attrs]

\* an on/off helper with the two values exchanged
BrOnOffInverted(arg_name, arg_val, attrs, type) ==
    IF arg_val = Word("on") THEN BrOk(addattr8(attrs, type, 0))
    ELSE IF arg_val = Word("off") THEN BrOk(addattr8(attrs, type, 1))
    ELSE BrExit(attrs)

\* iplink_bridge_slave.c lines 279..294
bridge_slave_parse_on_off(arg_name, arg_val, attrs, type) ==
    IF arg_val = Word("on") THEN BrOk(addattr8(attrs, type, 1))
    ELSE IF arg_val = Word("off") THEN BrOk(addattr8(attrs, type, 0))
    ELSE BrExit(attrs)                                 \* invarg("should be on or off")

\* the attribute the keyword mcast_fast_leave writes, were it another one
McastFastLeaveOther == "IFLA_BRPORT_MCAST_FLOOD"

\* lines 338..339 and 376..377: the attribute fastleave and mcast_fast_leave write
FastleaveType == "IFLA_BRPORT_FAST_LEAVE"
McastFastLeaveType == "IFLA_BRPORT_FAST_LEAVE"

RECURSIVE br_scan(_, _, _)
br_scan(args, i, attrs) ==
    IF i > Len(args) THEN BrOk(attrs)
    ELSE IF matches(args[i], "fdb_flush") = 0 THEN
        br_scan(args, i + 1, addattr(attrs, "IFLA_BRPORT_FLUSH"))
    ELSE IF matches(args[i], "state") = 0 THEN
        IF i + 1 > Len(args) THEN BrExit(attrs)
        ELSE LET r == get_u8(args[i + 1])
             IN IF r.err # 0 THEN BrExit(attrs)            \* invarg("state is invalid")
                ELSE br_scan(args, i + 2, addattr8(attrs, "IFLA_BRPORT_STATE", r.val))
    ELSE IF matches(args[i], "priority") = 0 THEN
        IF i + 1 > Len(args) THEN BrExit(attrs)
        ELSE LET r == get_u16(args[i + 1])
             IN IF r.err # 0 THEN BrExit(attrs)            \* invarg("priority is invalid")
                ELSE br_scan(args, i + 2, addattr16(attrs, "IFLA_BRPORT_PRIORITY", r.val))
    ELSE IF matches(args[i], "cost") = 0 THEN
        IF i + 1 > Len(args) THEN BrExit(attrs)
        ELSE LET r == get_u32(args[i + 1])
             IN IF r.err # 0 THEN BrExit(attrs)            \* invarg("cost is invalid")
                ELSE br_scan(args, i + 2, addattr32(attrs, "IFLA_BRPORT_COST", r.val))
    ELSE IF matches(args[i], "hairpin") = 0 THEN
        IF i + 1 > Len(args) THEN BrExit(attrs)
        ELSE LET r == bridge_slave_parse_on_off("hairpin", args[i + 1], attrs, "IFLA_BRPORT_MODE")
             IN IF r.ret # 0 THEN BrFail(r) ELSE br_scan(args, i + 2, r.attrs)
    ELSE IF matches(args[i], "guard") = 0 THEN
        IF i + 1 > Len(args) THEN BrExit(attrs)
        ELSE LET r == bridge_slave_parse_on_off("guard", args[i + 1], attrs, "IFLA_BRPORT_GUARD")
             IN IF r.ret # 0 THEN BrFail(r) ELSE br_scan(args, i + 2, r.attrs)
    ELSE IF matches(args[i], "root_block") = 0 THEN
        IF i + 1 > Len(args) THEN BrExit(attrs)
        ELSE LET r == bridge_slave_parse_on_off("root_block", args[i + 1], attrs, "IFLA_BRPORT_PROTECT")
             IN IF r.ret # 0 THEN BrFail(r) ELSE br_scan(args, i + 2, r.attrs)
    ELSE IF matches(args[i], "fastleave") = 0 THEN
        IF i + 1 > Len(args) THEN BrExit(attrs)
        ELSE LET r == bridge_slave_parse_on_off("fastleave", args[i + 1], attrs, FastleaveType)
             IN IF r.ret # 0 THEN BrFail(r) ELSE br_scan(args, i + 2, r.attrs)
    ELSE IF matches(args[i], "learning") = 0 THEN
        IF i + 1 > Len(args) THEN BrExit(attrs)
        ELSE LET r == bridge_slave_parse_on_off("learning", args[i + 1], attrs, "IFLA_BRPORT_LEARNING")
             IN IF r.ret # 0 THEN BrFail(r) ELSE br_scan(args, i + 2, r.attrs)
    ELSE IF matches(args[i], "flood") = 0 THEN
        IF i + 1 > Len(args) THEN BrExit(attrs)
        ELSE LET r == bridge_slave_parse_on_off("flood", args[i + 1], attrs, "IFLA_BRPORT_UNICAST_FLOOD")
             IN IF r.ret # 0 THEN BrFail(r) ELSE br_scan(args, i + 2, r.attrs)
    ELSE IF matches(args[i], "mcast_flood") = 0 THEN
        IF i + 1 > Len(args) THEN BrExit(attrs)
        ELSE LET r == bridge_slave_parse_on_off("mcast_flood", args[i + 1], attrs, "IFLA_BRPORT_MCAST_FLOOD")
             IN IF r.ret # 0 THEN BrFail(r) ELSE br_scan(args, i + 2, r.attrs)
    ELSE IF matches(args[i], "proxy_arp") = 0 THEN
        IF i + 1 > Len(args) THEN BrExit(attrs)
        ELSE LET r == bridge_slave_parse_on_off("proxy_arp", args[i + 1], attrs, "IFLA_BRPORT_PROXYARP")
             IN IF r.ret # 0 THEN BrFail(r) ELSE br_scan(args, i + 2, r.attrs)
    ELSE IF matches(args[i], "proxy_arp_wifi") = 0 THEN
        IF i + 1 > Len(args) THEN BrExit(attrs)
        ELSE LET r == bridge_slave_parse_on_off("proxy_arp_wifi", args[i + 1], attrs, "IFLA_BRPORT_PROXYARP_WIFI")
             IN IF r.ret # 0 THEN BrFail(r) ELSE br_scan(args, i + 2, r.attrs)
    ELSE IF matches(args[i], "mcast_router") = 0 THEN
        IF i + 1 > Len(args) THEN BrExit(attrs)
        ELSE LET r == get_u8(args[i + 1])
             IN IF r.err # 0 THEN BrExit(attrs)            \* invarg("invalid mcast_router")
                ELSE br_scan(args, i + 2, addattr8(attrs, "IFLA_BRPORT_MULTICAST_ROUTER", r.val))
    ELSE IF matches(args[i], "mcast_fast_leave") = 0 THEN
        IF i + 1 > Len(args) THEN BrExit(attrs)
        ELSE LET r == bridge_slave_parse_on_off("mcast_fast_leave", args[i + 1], attrs, McastFastLeaveType)
             IN IF r.ret # 0 THEN BrFail(r) ELSE br_scan(args, i + 2, r.attrs)
    ELSE IF matches(args[i], "neigh_suppress") = 0 THEN
        IF i + 1 > Len(args) THEN BrExit(attrs)
        ELSE LET r == bridge_slave_parse_on_off("neigh_suppress", args[i + 1], attrs, "IFLA_BRPORT_NEIGH_SUPPRESS")
             IN IF r.ret # 0 THEN BrFail(r) ELSE br_scan(args, i + 2, r.attrs)
    ELSE IF matches(args[i], "group_fwd_mask") = 0 THEN
        IF i + 1 > Len(args) THEN BrExit(attrs)
        ELSE LET r == get_u16(args[i + 1])
             IN IF r.err # 0 THEN BrExit(attrs)            \* invarg("invalid group_fwd_mask")
                ELSE br_scan(args, i + 2, addattr16(attrs, "IFLA_BRPORT_GROUP_FWD_MASK", r.val))
    ELSE IF matches(args[i], "vlan_tunnel") = 0 THEN
        IF i + 1 > Len(args) THEN BrExit(attrs)
        ELSE LET r == bridge_slave_parse_on_off("vlan_tunnel", args[i + 1], attrs, "IFLA_BRPORT_VLAN_TUNNEL")
             IN IF r.ret # 0 THEN BrFail(r) ELSE br_scan(args, i + 2, r.attrs)
    ELSE IF matches(args[i], "help") = 0 THEN BrErr(attrs)   \* explain()
    ELSE BrErr(attrs)                                  \* unknown option, explain()

bridge_slave_parse_opt(args) == br_scan(args, 1, <<>>)

(***************************************************************************)
(* The bridge-port command line: argv is the options' tokens in order.     *)
(***************************************************************************)
BrOnOffKeywords ==
    {"hairpin", "guard", "root_block", "fastleave", "learning", "flood", "mcast_flood",
     "proxy_arp", "proxy_arp_wifi", "mcast_fast_leave", "neigh_suppress", "vlan_tunnel"}

BrItems ==
    {<<Word(k), Word(v)>> : k \in BrOnOffKeywords, v \in {"on", "off"}}
    \cup {<<Word(k), Word("maybe")>> : k \in {"fastleave", "mcast_fast_leave", "hairpin"}}
    \cup {<<Word("state"), Num(n)>> : n \in {0, 3, 256}}
    \cup {<<Word("priority"), Num(n)>> : n \in {32, 65536}}
    \cup {<<Word("cost"), v>> : v \in {Num(100), Huge}}
    \cup {<<Word("mcast_router"), Num(n)>> : n \in {1, 256}}
    \cup {<<Word("group_fwd_mask"), Num(n)>> : n \in {16389, 65536}}
    \cup {<<Word("fdb_flush")>>, <<Word("help")>>, <<Word("bogus")>>,
          <<Word("cost")>>, <<Word("guard")>>}

IdleFouAll ==
    /\ IdleFou
    /\ json = FALSE

InitBridge ==
    /\ bigEndian \in BOOLEAN
    /\ opts \in SeqsUpTo(BrItems, MaxBrOpts)
    /\ argv = Flatten(opts)
    /\ pc = "br_start"
    /\ parsed = BrOk(<<>>)
    /\ IdleFouAll
    /\ mask = 0 /\ str = <<>> /\ tb = <<>> /\ outText = <<>> /\ outJson = <<>>

\* the link command hands the tokens to the grammar's parse_opt
BrParse ==
    /\ pc = "br_start"
    /\ parsed' = bridge_slave_parse_opt(argv)
    /\ pc' = "br_parsed"
    /\ UNCHANGED <<bigEndian, argv, fouVars, otherVars, json>>

\* the message is read back: the decoded table of the attributes built
BrReadBack ==
    /\ pc = "br_parsed"
    /\ parsed.ret = 0
    /\ tb' = parse_rtattr(parsed.attrs, {parsed.attrs[i].type : i \in 1..Len(parsed.attrs)})
    /\ pc' = "br_read"
    /\ UNCHANGED <<bigEndian, argv, parsed, fouVars, opts, mask, str, outText, outJson, json>>

NextBridge == BrParse \/ BrReadBack

SpecBridge == InitBridge /\ [][NextBridge]_vars

(***************************************************************************)
(* Claims about the bridge-port grammar (specification SpecBridge).        *)
(***************************************************************************)
\* the field each value-setting keyword stands for
BrFieldOf ==
    [fdb_flush |-> "IFLA_BRPORT_FLUSH", state |-> "IFLA_BRPORT_STATE",
     priority |-> "IFLA_BRPORT_PRIORITY", cost |-> "IFLA_BRPORT_COST",
     hairpin |-> "IFLA_BRPORT_MODE", guard |-> "IFLA_BRPORT_GUARD",
     root_block |-> "IFLA_BRPORT_PROTECT", fastleave |-> "IFLA_BRPORT_FAST_LEAVE",
     learning |-> "IFLA_BRPORT_LEARNING", flood |-> "IFLA_BRPORT_UNICAST_FLOOD",
     mcast_flood |-> "IFLA_BRPORT_MCAST_FLOOD", proxy_arp |-> "IFLA_BRPORT_PROXYARP",
     proxy_arp_wifi |-> "IFLA_BRPORT_PROXYARP_WIFI",
     mcast_router |-> "IFLA_BRPORT_MULTICAST_ROUTER",
     mcast_fast_leave |-> "IFLA_BRPORT_FAST_LEAVE",
     neigh_suppress |-> "IFLA_BRPORT_NEIGH_SUPPRESS",
     group_fwd_mask |-> "IFLA_BRPORT_GROUP_FWD_MASK",
     vlan_tunnel |-> "IFLA_BRPORT_VLAN_TUNNEL"]

\* the value an option's token sets: 1 for on, 0 for off, the number read
\* otherwise (and 0 for the valueless fdb_flush, whose payload is empty)
OptValue(opt) ==
    IF Len(opt) < 2 THEN 0
    ELSE IF opt[2] = Word("on") THEN 1
    ELSE IF opt[2] = Word("off") THEN 0
    ELSE opt[2].n

OptField(opt) == BrFieldOf[opt[1].s]

BrAccepted == pc \in {"br_parsed", "br_read"} /\ parsed.ret = 0 /\ ~parsed.exited

BrTypesBuilt == {parsed.attrs[i].type : i \in 1..Len(parsed.attrs)}
RecordsOf(t) == {i \in 1..Len(parsed.attrs) : parsed.attrs[i].type = t}
OptionsOf(t) == {j \in 1..Len(opts) : OptField(opts[j]) = t}
Last(S) == CHOOSE i \in S : \A j \in S : j <= i

\* C6 as claimed: an accepted token sequence builds at most one record per
\* attribute type, carrying the value of the last token that set the field.
C6_AtMostOneRecordPerType ==
    BrAccepted =>
        \A t \in BrTypesBuilt :
            /\ Cardinality(RecordsOf(t)) <= 1
            /\ FromHostBytes(parsed.attrs[Last(RecordsOf(t))].payload)
                   = OptValue(opts[Last(OptionsOf(t))])

\* C6 amended: an accepted token sequence builds one record per option, in
\* token order, each of the option's attribute type and value; the last
\* record of a type carries the value of the last token that set the field.
C6_OneRecordPerOption ==
    BrAccepted =>
        /\ Len(parsed.attrs) = Len(opts)
        /\ \A i \in 1..Len(opts) :
              /\ parsed.attrs[i].type = OptField(opts[i])
              /\ FromHostBytes(parsed.attrs[i].payload) = OptValue(opts[i])
        /\ \A t \in BrTypesBuilt :
              /\ Cardinality(RecordsOf(t)) = Cardinality(OptionsOf(t))
              /\ FromHostBytes(parsed.attrs[Last(RecordsOf(t))].payload)
                     = OptValue(opts[Last(OptionsOf(t))])

C6_Witness ==
    /\ BrAccepted
    /\ argv = <<Word("fastleave"), Word("on"), Word("mcast_fast_leave"), Word("off")>>
    /\ Cardinality(RecordsOf("IFLA_BRPORT_FAST_LEAVE")) = 2
    /\ rta_getattr_u8(parsed.attrs[2]) = 0

\* the tokens with fastleave and mcast_fast_leave exchanged
SwapAlias(args) ==
    [i \in 1..Len(args) |->
        IF args[i] = Word("fastleave") THEN Word("mcast_fast_leave")
        ELSE IF args[i] = Word("mcast_fast_leave") THEN Word("fastleave")
        ELSE args[i]]

\* C7: fastleave v and mcast_fast_leave v build the same tree: for v on or
\* off one fast-leave record decoding to 1 or 0, for any other v a failure.
C7_FastleaveAlias ==
    pc \in {"br_parsed", "br_read"} =>
        /\ parsed = bridge_slave_parse_opt(SwapAlias(argv))
        /\ (Len(argv) = 2 /\ argv[1] \in {Word("fastleave"), Word("mcast_fast_leave")})
              => IF argv[2] \in {Word("on"), Word("off")}
                 THEN /\ parsed.ret = 0
                      /\ Len(parsed.attrs) = 1
                      /\ parsed.attrs[1].type = "IFLA_BRPORT_FAST_LEAVE"
                      /\ rta_getattr_u8(parsed.attrs[1])
                             = (IF argv[2] = Word("on") THEN 1 ELSE 0)
                 ELSE parsed.ret # 0 /\ parsed.attrs = <<>>

C7_Witness ==
    /\ pc = "br_read"
    /\ argv = <<Word("mcast_fast_leave"), Word("on")>>
    /\ DOMAIN tb = {"IFLA_BRPORT_FAST_LEAVE"}
    /\ rta_getattr_u8(tb["IFLA_BRPORT_FAST_LEAVE"]) = 1

(***************************************************************************)
(* _bitmask2str (iplink_bridge_slave.c lines 101..121).  Text is a         *)
(* sequence of characters; tables are indexed from 1, so bit i is entry    *)
(* i + 1, and <<>> is a NULL entry.                                        *)
(***************************************************************************)
U16Max == 65535
ConvbufSize == 256

\* a table with lacp at bit 1 instead of bit 2
FwdMaskTblShifted ==
    <<<<"s", "t", "p">>,
     <<"l", "a", "c", "p">>,
     <<>>,
     <<>>,
     <<>>,
     <<>>,
     <<>>,
     <<>>,
     <<>>,
     <<>>,
     <<>>,
     <<>>,
     <<>>,
     <<>>,
     <<"l", "l", "d", "p">>,
     <<>>>>

\* lines 59..63
fwd_mask_tbl ==
    <<<<"s", "t", "p">>,
     <<>>,
     <<"l", "a", "c", "p">>,
     <<>>,
     <<>>,
     <<>>,
     <<>>,
     <<>>,
     <<>>,
     <<>>,
     <<>>,
     <<>>,
     <<>>,
     <<>>,
     <<"l", "l", "d", "p">>,
     <<>>>>

HexDigits ==
    <<"0", "1", "2", "3", "4", "5", "6", "7", "8", "9", "a", "b", "c", "d", "e", "f">>

\* printf's %x
RECURSIVE FormatHex(_)
FormatHex(n) ==
    IF n < 16 THEN <<HexDigits[n + 1]>>
    ELSE FormatHex(n \div 16) \o <<HexDigits[(n % 16) + 1]>>

Take(t, n) == IF n <= 0 THEN <<>> ELSE SubSeq(t, 1, IF n < Len(t) THEN n ELSE Len(t))

\* snprintf(dst + len, dst_size - len, ...): at most dst_size - len - 1
\* characters of the text are stored; the caller adds the text's full length
SnprintfAt(dst, len, dst_size, text) ==
    IF len >= dst_size THEN dst
    ELSE Take(dst, len) \o Take(text, dst_size - len - 1)

RECURSIVE bitmask2str_loop(_, _, _, _, _, _)
bitmask2str_loop(bitmask, i, len, dst, dst_size, tbl) ==
    IF bitmask = 0 THEN [len |-> len, dst |-> dst]
    ELSE IF bitmask % 2 = 1
    THEN LET text == IF tbl[i + 1] # <<>> THEN tbl[i + 1] \o <<",">>
                     ELSE <<"0", "x">> \o FormatHex(2^i) \o <<",">>
         IN bitmask2str_loop(bitmask \div 2, i + 1, len + Len(text),
                             SnprintfAt(dst, len, dst_size, text), dst_size, tbl)
    ELSE bitmask2str_loop(bitmask \div 2, i + 1, len, dst, dst_size, tbl)

bitmask2str(bitmask, dst_size, tbl) ==
    LET r == bitmask2str_loop(bitmask, 0, 0, <<>>, dst_size, tbl)
    IN IF r.len = 0 THEN SnprintfAt(<<>>, 0, dst_size, <<"0", "x", "0">>)
       ELSE Take(r.dst, r.len - 1)                     \* dst[len - 1] = 0

InitMask ==
    /\ bigEndian = FALSE
    /\ mask \in 0..U16Max
    /\ str = <<>>
    /\ pc = "mask_start"
    /\ argv = <<>> /\ parsed = NoParse /\ opts = <<>>
    /\ tb = <<>> /\ outText = <<>> /\ outJson = <<>>
    /\ IdleFouAll

\* bridge_slave_print_opt line 269
Bitmask2Str ==
    /\ pc = "mask_start"
    /\ str' = bitmask2str(mask, ConvbufSize, fwd_mask_tbl)
    /\ pc' = "mask_done"
    /\ UNCHANGED <<bigEndian, argv, parsed, fouVars, opts, mask, tb, outText, outJson, json>>

NextMask == Bitmask2Str

SpecMask == InitMask /\ [][NextMask]_vars

\* the token the claim gives each bit: the name of a mapped bit, the
\* hexadecimal flag of an unmapped one
BitToken ==
    <<<<"s", "t", "p">>,
     <<"0", "x", "2">>,
     <<"l", "a", "c", "p">>,
     <<"0", "x", "8">>,
     <<"0", "x", "1", "0">>,
     <<"0", "x", "2", "0">>,
     <<"0", "x", "4", "0">>,
     <<"0", "x", "8", "0">>,
     <<"0", "x", "1", "0", "0">>,
     <<"0", "x", "2", "0", "0">>,
     <<"0", "x", "4", "0", "0">>,
     <<"0", "x", "8", "0", "0">>,
     <<"0", "x", "1", "0", "0", "0">>,
     <<"0", "x", "2", "0", "0", "0">>,
     <<"l", "l", "d", "p">>,
     <<"0", "x", "8", "0", "0", "0">>>>

RECURSIVE JoinComma(_)
JoinComma(ts) ==
    IF ts = <<>> THEN <<>>
    ELSE IF Len(ts) = 1 THEN ts[1]
    ELSE ts[1] \o <<",">> \o JoinComma(Tail(ts))

BitSet(v, i) == (v \div 2^i) % 2 = 1

RECURSIVE TokensFrom(_, _)
TokensFrom(v, i) ==
    IF i > 15 THEN <<>>
    ELSE (IF BitSet(v, i) THEN <<BitToken[i + 1]>> ELSE <<>>) \o TokensFrom(v, i + 1)

\* C8: a 16-bit forwarding mask renders as 0x0 when it is 0, and otherwise
\* as its set bits' tokens in ascending bit order, joined by single commas
\* with no trailing separator.
C8_BitmaskRendering ==
    pc = "mask_done" =>
        str = (IF mask = 0 THEN <<"0", "x", "0">> ELSE JoinComma(TokensFrom(mask, 0)))

C8_Witness ==
    /\ pc = "mask_done"
    /\ mask = 37
    /\ str = <<"s", "t", "p", ",", "l", "a", "c", "p", ",", "0", "x", "2", "0">>

(***************************************************************************)
(* The FOU port from the build path to the display path: the tokens        *)
(* "port P" are built into a request, and a mapping carrying the attribute *)
(* as built is printed by print_fou_mapping.                               *)
(***************************************************************************)
InitPort ==
    /\ bigEndian \in BOOLEAN
    /\ \E p \in 0..PortTokMax : argv = <<Word("port"), Num(p)>>
    /\ pc = "port_start"
    /\ parsed = NoParse
    /\ IdleFouAll
    /\ IdleOther

\* do_del's fou_parse_opt(argc, argv, &req.n, false)
PortBuild ==
    /\ pc = "port_start"
    /\ parsed' = fou_parse_opt(argv, FALSE)
    /\ pc' = "port_built"
    /\ UNCHANGED <<bigEndian, argv, fouVars, otherVars, json>>

\* print_fou_mapping on the attributes as built, in plain-text mode
PortShowText ==
    /\ pc = "port_built"
    /\ parsed.ret = 0
    /\ tb' = parse_rtattr(parsed.attrs, FouAttrTypes)
    /\ outText' = FouPrintTable(tb', FALSE)
    /\ pc' = "port_shown"
    /\ UNCHANGED <<bigEndian, argv, parsed, fouVars, opts, mask, str, outJson, json>>

\* the same in structured mode
PortShowJson ==
    /\ pc = "port_built"
    /\ parsed.ret = 0
    /\ tb' = parse_rtattr(parsed.attrs, FouAttrTypes)
    /\ outJson' = FouPrintTable(tb', TRUE)
    /\ pc' = "port_shown"
    /\ UNCHANGED <<bigEndian, argv, parsed, fouVars, opts, mask, str, outText, json>>

NextPort == PortBuild \/ PortShowText \/ PortShowJson

SpecPort == InitPort /\ [][NextPort]_vars

PortToken == argv[2].n
Items(out) == {out[i] : i \in 1..Len(out)}
PortShown ==
    {it.val.n : it \in {x \in Items(outText \o outJson) : x.name \in {"port", "port %u"}}}

\* C9: a port p in 1..65535 is stored in the port attribute in network byte
\* order and shown as p by the display path; port 0 and values above 65535
\* are rejected when the request is built, and no attribute is written.
C9_PortRoundTrip ==
    /\ pc \in {"port_built", "port_shown"} =>
          IF PortToken \in 1..65535
          THEN /\ parsed.ret = 0
               /\ parsed.attrs[1].type = "FOU_ATTR_PORT"
               /\ parsed.attrs[1].payload = <<PortToken \div 256, PortToken % 256>>
          ELSE parsed.ret # 0 /\ parsed.exited /\ parsed.attrs = <<>>
    /\ pc = "port_shown" => PortShown = {PortToken}

C9_Witness ==
    /\ pc = "port_shown"
    /\ ~bigEndian
    /\ PortToken = 8080
    /\ PortShown = {8080}
    /\ parsed.attrs[1].payload = <<31, 144>>

(***************************************************************************)
(* bridge_slave_print_opt (iplink_bridge_slave.c lines 123..277).          *)
(***************************************************************************)
BR_STATE_BLOCKING == 4
Hz == 100

\* lines 51..57, indexed from 1
port_states == <<"disabled", "listening", "learning", "forwarding", "blocking">>

\* lines 65..74
print_portstate(js, state) ==
    IF state <= BR_STATE_BLOCKING
    THEN Emit(js, "PRINT_ANY", "state", "state %s ", StrVal(port_states[state + 1]))
    ELSE Emit(js, "PRINT_ANY", "state_index", "state (%d) ", NumVal(state))

\* an on/off printer that emits nothing in structured mode
PrintOnOffTextOnly(js, json_flag, flag, val) ==
    IF js THEN <<>>
    ELSE <<[name |-> flag, val |-> StrVal(IF val # 0 THEN "on" ELSE "off")]>>

\* lines 76..82: _print_onoff; the structured key is flag, not json_flag
print_onoff(js, json_flag, flag, val) ==
    IF js
    THEN Emit(js, "PRINT_JSON", flag, "", StrVal(IF val # 0 THEN "true" ELSE "false"))
    ELSE <<[name |-> flag, val |-> StrVal(IF val # 0 THEN "on" ELSE "off")]>>

\* utils.c __jiffies_to_tv at a fixed tick rate: seconds and hundredths
jiffies_to_tv(j) == [sec |-> j \div Hz, hundredths |-> ((j % Hz) * 100) \div Hz]

\* lines 84..99: _print_timer, the value as seconds * 100 + hundredths
print_timer(js, attr, timer) ==
    LET tv == jiffies_to_tv(FromHostBytes(timer.payload))
    IN <<[name |-> attr, val |-> NumVal(tv.sec * 100 + tv.hundredths)]>>

\* br_dump_bridge_id: the id's text, kept as the payload's bytes
br_dump_bridge_id(rta) == CharsVal(rta.payload)

\* lines 246..252: the second rendering of the fast-leave attribute
print_mcast_fast_leave(js, val) ==
    Emit(js, "PRINT_FP", "", "mcast_fast_leave %s ", StrVal(IF val # 0 THEN "on" ELSE "off"))

BrPrintTable(t, js) ==
    LET has(a) == a \in DOMAIN t
        q1 == IF has("IFLA_BRPORT_STATE")
               THEN print_portstate(js, rta_getattr_u8(t["IFLA_BRPORT_STATE"]))
               ELSE <<>>
        q2 == IF has("IFLA_BRPORT_PRIORITY")
               THEN Emit(js, "PRINT_ANY", "priority", "priority %d ", NumVal(rta_getattr_u16(t["IFLA_BRPORT_PRIORITY"])))
               ELSE <<>>
        q3 == IF has("IFLA_BRPORT_COST")
               THEN Emit(js, "PRINT_ANY", "cost", "cost %d ", NumVal(rta_getattr_u32(t["IFLA_BRPORT_COST"])))
               ELSE <<>>
        q4 == IF has("IFLA_BRPORT_MODE")
               THEN print_onoff(js, "mode", "hairpin", rta_getattr_u8(t["IFLA_BRPORT_MODE"]))
               ELSE <<>>
        q5 == IF has("IFLA_BRPORT_GUARD")
               THEN print_onoff(js, "guard", "guard", rta_getattr_u8(t["IFLA_BRPORT_GUARD"]))
               ELSE <<>>
        q6 == IF has("IFLA_BRPORT_PROTECT")
               THEN print_onoff(js, "protect", "root_block", rta_getattr_u8(t["IFLA_BRPORT_PROTECT"]))
               ELSE <<>>
        q7 == IF has("IFLA_BRPORT_FAST_LEAVE")
               THEN print_onoff(js, "fast_leave", "fastleave", rta_getattr_u8(t["IFLA_BRPORT_FAST_LEAVE"]))
               ELSE <<>>
        q8 == IF has("IFLA_BRPORT_LEARNING")
               THEN print_onoff(js, "learning", "learning", rta_getattr_u8(t["IFLA_BRPORT_LEARNING"]))
               ELSE <<>>
        q9 == IF has("IFLA_BRPORT_UNICAST_FLOOD")
               THEN print_onoff(js, "unicast_flood", "flood", rta_getattr_u8(t["IFLA_BRPORT_UNICAST_FLOOD"]))
               ELSE <<>>
        q10 == IF has("IFLA_BRPORT_ID")
               THEN Emit(js, "PRINT_ANY", "id", "port_id 0x%x ", NumVal(rta_getattr_u16(t["IFLA_BRPORT_ID"])))
               ELSE <<>>
        q11 == IF has("IFLA_BRPORT_NO")
               THEN Emit(js, "PRINT_ANY", "no", "port_no 0x%x ", NumVal(rta_getattr_u16(t["IFLA_BRPORT_NO"])))
               ELSE <<>>
        q12 == IF has("IFLA_BRPORT_DESIGNATED_PORT")
               THEN Emit(js, "PRINT_ANY", "designated_port", "designated_port %u ", NumVal(rta_getattr_u16(t["IFLA_BRPORT_DESIGNATED_PORT"])))
               ELSE <<>>
        q13 == IF has("IFLA_BRPORT_DESIGNATED_COST")
               THEN Emit(js, "PRINT_ANY", "designated_cost", "designated_cost %u ", NumVal(rta_getattr_u16(t["IFLA_BRPORT_DESIGNATED_COST"])))
               ELSE <<>>
        q14 == IF has("IFLA_BRPORT_BRIDGE_ID")
               THEN Emit(js, "PRINT_ANY", "bridge_id", "designated_bridge %s ", br_dump_bridge_id(t["IFLA_BRPORT_BRIDGE_ID"]))
               ELSE <<>>
        q15 == IF has("IFLA_BRPORT_ROOT_ID")
               THEN Emit(js, "PRINT_ANY", "root_id", "designated_root %s ", br_dump_bridge_id(t["IFLA_BRPORT_ROOT_ID"]))
               ELSE <<>>
        q16 == IF has("IFLA_BRPORT_HOLD_TIMER")
               THEN print_timer(js, "hold_timer", t["IFLA_BRPORT_HOLD_TIMER"])
               ELSE <<>>
        q17 == IF has("IFLA_BRPORT_MESSAGE_AGE_TIMER")
               THEN print_timer(js, "message_age_timer", t["IFLA_BRPORT_MESSAGE_AGE_TIMER"])
               ELSE <<>>
        q18 == IF has("IFLA_BRPORT_FORWARD_DELAY_TIMER")
               THEN print_timer(js, "forward_delay_timer", t["IFLA_BRPORT_FORWARD_DELAY_TIMER"])
               ELSE <<>>
        q19 == IF has("IFLA_BRPORT_TOPOLOGY_CHANGE_ACK")
               THEN Emit(js, "PRINT_ANY", "topology_change_ack", "topology_change_ack %u ", NumVal(rta_getattr_u8(t["IFLA_BRPORT_TOPOLOGY_CHANGE_ACK"])))
               ELSE <<>>
        q20 == IF has("IFLA_BRPORT_CONFIG_PENDING")
               THEN Emit(js, "PRINT_ANY", "config_pending", "config_pending %u ", NumVal(rta_getattr_u8(t["IFLA_BRPORT_CONFIG_PENDING"])))
               ELSE <<>>
        q21 == IF has("IFLA_BRPORT_PROXYARP")
               THEN print_onoff(js, "proxyarp", "proxy_arp", rta_getattr_u8(t["IFLA_BRPORT_PROXYARP"]))
               ELSE <<>>
        q22 == IF has("IFLA_BRPORT_PROXYARP_WIFI")
               THEN print_onoff(js, "proxyarp_wifi", "proxy_arp_wifi", rta_getattr_u8(t["IFLA_BRPORT_PROXYARP_WIFI"]))
               ELSE <<>>
        q23 == IF has("IFLA_BRPORT_MULTICAST_ROUTER")
               THEN Emit(js, "PRINT_ANY", "multicast_router", "mcast_router %u ", NumVal(rta_getattr_u8(t["IFLA_BRPORT_MULTICAST_ROUTER"])))
               ELSE <<>>
        q24 == IF has("IFLA_BRPORT_FAST_LEAVE")
               THEN print_mcast_fast_leave(js, rta_getattr_u8(t["IFLA_BRPORT_FAST_LEAVE"]))
               ELSE <<>>
        q25 == IF has("IFLA_BRPORT_MCAST_FLOOD")
               THEN print_onoff(js, "mcast_flood", "mcast_flood", rta_getattr_u8(t["IFLA_BRPORT_MCAST_FLOOD"]))
               ELSE <<>>
        q26 == IF has("IFLA_BRPORT_NEIGH_SUPPRESS")
               THEN print_onoff(js, "neigh_suppress", "neigh_suppress", rta_getattr_u8(t["IFLA_BRPORT_NEIGH_SUPPRESS"]))
               ELSE <<>>
        q27 == IF has("IFLA_BRPORT_GROUP_FWD_MASK")
               THEN LET fwd_mask == rta_getattr_u16(t["IFLA_BRPORT_GROUP_FWD_MASK"])
                   IN Emit(js, "PRINT_ANY", "group_fwd_mask", "group_fwd_mask 0x%x ",
                           NumVal(fwd_mask))
                      \o Emit(js, "PRINT_ANY", "group_fwd_mask_str", "group_fwd_mask_str %s ",
                              CharsVal(bitmask2str(fwd_mask, ConvbufSize, fwd_mask_tbl)))
               ELSE <<>>
        q28 == IF has("IFLA_BRPORT_VLAN_TUNNEL")
               THEN print_onoff(js, "vlan_tunnel", "vlan_tunnel", rta_getattr_u8(t["IFLA_BRPORT_VLAN_TUNNEL"]))
               ELSE <<>>
    IN q1 \o q2 \o q3 \o q4 \o q5 \o q6 \o q7 \o q8 \o q9
       \o q10 \o q11 \o q12 \o q13 \o q14 \o q15 \o q16 \o q17 \o q18
       \o q19 \o q20 \o q21 \o q22 \o q23 \o q24 \o q25 \o q26 \o q27
       \o q28

(***************************************************************************)
(* Printing a decoded table in both output modes: the same table is        *)
(* printed once in plain-text and once in structured mode.                 *)
(***************************************************************************)
Range(f) == {f[i] : i \in DOMAIN f}

\* per attribute type: the payload width in bytes and the values tried
FouAttrSamples ==
    {[type |-> "FOU_ATTR_PORT", width |-> 2, vals |-> {htons(80)}],
     [type |-> "FOU_ATTR_TYPE", width |-> 1, vals |-> {FOU_ENCAP_DIRECT, FOU_ENCAP_GUE}],
     [type |-> "FOU_ATTR_IPPROTO", width |-> 1, vals |-> {47}],
     [type |-> "FOU_ATTR_AF", width |-> 1, vals |-> {AF_INET, AF_INET6}]}

BrAttrSamples ==
    {[type |-> "IFLA_BRPORT_STATE", width |-> 1, vals |-> {3, 7}],
     [type |-> "IFLA_BRPORT_PRIORITY", width |-> 2, vals |-> {32}],
     [type |-> "IFLA_BRPORT_COST", width |-> 4, vals |-> {100}],
     [type |-> "IFLA_BRPORT_MODE", width |-> 1, vals |-> {0, 1}],
     [type |-> "IFLA_BRPORT_GUARD", width |-> 1, vals |-> {1}],
     [type |-> "IFLA_BRPORT_PROTECT", width |-> 1, vals |-> {0}],
     [type |-> "IFLA_BRPORT_FAST_LEAVE", width |-> 1, vals |-> {0, 1}],
     [type |-> "IFLA_BRPORT_LEARNING", width |-> 1, vals |-> {1}],
     [type |-> "IFLA_BRPORT_UNICAST_FLOOD", width |-> 1, vals |-> {1}],
     [type |-> "IFLA_BRPORT_ID", width |-> 2, vals |-> {32769}],
     [type |-> "IFLA_BRPORT_NO", width |-> 2, vals |-> {1}],
     [type |-> "IFLA_BRPORT_DESIGNATED_PORT", width |-> 2, vals |-> {32769}],
     [type |-> "IFLA_BRPORT_DESIGNATED_COST", width |-> 2, vals |-> {0}],
     [type |-> "IFLA_BRPORT_BRIDGE_ID", width |-> 8, vals |-> {32768}],
     [type |-> "IFLA_BRPORT_ROOT_ID", width |-> 8, vals |-> {32768}],
     [type |-> "IFLA_BRPORT_HOLD_TIMER", width |-> 8, vals |-> {150}],
     [type |-> "IFLA_BRPORT_MESSAGE_AGE_TIMER", width |-> 8, vals |-> {0}],
     [type |-> "IFLA_BRPORT_FORWARD_DELAY_TIMER", width |-> 8, vals |-> {0}],
     [type |-> "IFLA_BRPORT_TOPOLOGY_CHANGE_ACK", width |-> 1, vals |-> {0}],
     [type |-> "IFLA_BRPORT_CONFIG_PENDING", width |-> 1, vals |-> {0}],
     [type |-> "IFLA_BRPORT_PROXYARP", width |-> 1, vals |-> {0}],
     [type |-> "IFLA_BRPORT_PROXYARP_WIFI", width |-> 1, vals |-> {0}],
     [type |-> "IFLA_BRPORT_MULTICAST_ROUTER", width |-> 1, vals |-> {1}],
     [type |-> "IFLA_BRPORT_MCAST_FLOOD", width |-> 1, vals |-> {1}],
     [type |-> "IFLA_BRPORT_NEIGH_SUPPRESS", width |-> 1, vals |-> {0}],
     [type |-> "IFLA_BRPORT_GROUP_FWD_MASK", width |-> 2, vals |-> {0, 16389}],
     [type |-> "IFLA_BRPORT_VLAN_TUNNEL", width |-> 1, vals |-> {1}]}

\* the records a sample stands for
RecordsFor(smp) ==
    {[type |-> smp.type, payload |-> HostBytes(v, smp.width)] : v \in smp.vals}

\* the tables holding one record for each of at most n of the sampled types
TablesOf(samples, n) ==
    UNION {
        {f \in [{smp.type : smp \in S} -> UNION {RecordsFor(smp) : smp \in S}] :
            \A ty \in DOMAIN f : f[ty].type = ty} :
        S \in {Range(q) : q \in SeqsUpTo(samples, n)}}

InitPrint ==
    /\ bigEndian \in BOOLEAN
    /\ \/ \E t \in TablesOf(FouAttrSamples, Cardinality(FouAttrSamples)) :
             tb = [entity |-> "fou", t |-> t]
       \/ \E t \in TablesOf(BrAttrSamples, MaxPresent) :
             tb = [entity |-> "brport", t |-> t]
    /\ pc = "print_start"
    /\ outText = <<>> /\ outJson = <<>>
    /\ argv = <<>> /\ parsed = NoParse /\ opts = <<>> /\ mask = 0 /\ str = <<>>
    /\ IdleFouAll

PrintPending(mode) ==
    \/ pc = "print_start"
    \/ pc = (IF mode = "text" THEN "print_json" ELSE "print_text")

PrintDone(mode) ==
    IF pc = "print_start" THEN (IF mode = "text" THEN "print_text" ELSE "print_json")
    ELSE "print_both"

PrintFouText ==
    /\ tb.entity = "fou" /\ PrintPending("text")
    /\ outText' = FouPrintTable(tb.t, FALSE)
    /\ pc' = PrintDone("text")
    /\ UNCHANGED <<bigEndian, argv, parsed, fouVars, opts, mask, str, tb, outJson, json>>

PrintFouJson ==
    /\ tb.entity = "fou" /\ PrintPending("json")
    /\ outJson' = FouPrintTable(tb.t, TRUE)
    /\ pc' = PrintDone("json")
    /\ UNCHANGED <<bigEndian, argv, parsed, fouVars, opts, mask, str, tb, outText, json>>

PrintBrText ==
    /\ tb.entity = "brport" /\ PrintPending("text")
    /\ outText' = BrPrintTable(tb.t, FALSE)
    /\ pc' = PrintDone("text")
    /\ UNCHANGED <<bigEndian, argv, parsed, fouVars, opts, mask, str, tb, outJson, json>>

PrintBrJson ==
    /\ tb.entity = "brport" /\ PrintPending("json")
    /\ outJson' = BrPrintTable(tb.t, TRUE)
    /\ pc' = PrintDone("json")
    /\ UNCHANGED <<bigEndian, argv, parsed, fouVars, opts, mask, str, tb, outText, json>>

NextPrint == PrintFouText \/ PrintFouJson \/ PrintBrText \/ PrintBrJson

SpecPrint == InitPrint /\ [][NextPrint]_vars

(***************************************************************************)
(* Claims about the two output modes (specification SpecPrint).            *)
(***************************************************************************)
\* the field a plain-text format renders, named by its structured key; the
\* on/off flags and the timers print their own name
TextField ==
    [f \in {"port %u", " gue", " ipproto %u", " -6", "state %s ", "state (%d) ",
            "priority %d ", "cost %d ", "port_id 0x%x ", "port_no 0x%x ",
            "designated_port %u ", "designated_cost %u ", "designated_bridge %s ",
            "designated_root %s ", "topology_change_ack %u ", "config_pending %u ",
            "mcast_router %u ", "mcast_fast_leave %s ", "group_fwd_mask 0x%x ",
            "group_fwd_mask_str %s "} |->
        CASE f = "port %u" -> "port"
          [] f = " gue" -> "gue"
          [] f = " ipproto %u" -> "ipproto"
          [] f = " -6" -> "family"
          [] f = "state %s " -> "state"
          [] f = "state (%d) " -> "state_index"
          [] f = "priority %d " -> "priority"
          [] f = "cost %d " -> "cost"
          [] f = "port_id 0x%x " -> "id"
          [] f = "port_no 0x%x " -> "no"
          [] f = "designated_port %u " -> "designated_port"
          [] f = "designated_cost %u " -> "designated_cost"
          [] f = "designated_bridge %s " -> "bridge_id"
          [] f = "designated_root %s " -> "root_id"
          [] f = "topology_change_ack %u " -> "topology_change_ack"
          [] f = "config_pending %u " -> "config_pending"
          [] f = "mcast_router %u " -> "multicast_router"
          [] f = "mcast_fast_leave %s " -> "mcast_fast_leave"
          [] f = "group_fwd_mask 0x%x " -> "group_fwd_mask"
          [] f = "group_fwd_mask_str %s " -> "group_fwd_mask_str"]

\* the fields of a plain-text output (the line end is no field) and of a
\* structured output
TextFields(out) ==
    {IF n \in DOMAIN TextField THEN TextField[n] ELSE n :
        n \in {out[i].name : i \in 1..Len(out)} \ {"\n"}}
JsonFields(out) == {out[i].name : i \in 1..Len(out)}

\* C10 as claimed: a field is in the structured output iff it is in the
\* plain-text output.
C10_SameFieldsInBothModes ==
    pc = "print_both" => JsonFields(outJson) = TextFields(outText)

ModeOnly == {"family", "mcast_fast_leave"}

\* C10 amended: apart from the FOU address family and the bridge-port
\* mcast_fast_leave token, a field is in the structured output iff it is in
\* the plain-text output.  The family is in the structured output whenever
\* its attribute is present, and in the plain text only when it is IPv6;
\* mcast_fast_leave is in the plain text whenever the fast-leave attribute
\* is present, and never in the structured output.
C10_SameFieldsButFamilyAndMcastFastLeave ==
    pc = "print_both" =>
        /\ JsonFields(outJson) \ ModeOnly = TextFields(outText) \ ModeOnly
        /\ tb.entity = "fou" =>
              /\ "family" \in JsonFields(outJson) <=> "FOU_ATTR_AF" \in DOMAIN tb.t
              /\ "family" \in TextFields(outText)
                    <=> /\ "FOU_ATTR_AF" \in DOMAIN tb.t
                        /\ rta_getattr_u8(tb.t["FOU_ATTR_AF"]) = AF_INET6
        /\ tb.entity = "brport" =>
              /\ "mcast_fast_leave" \notin JsonFields(outJson)
              /\ "mcast_fast_leave" \in TextFields(outText)
                    <=> "IFLA_BRPORT_FAST_LEAVE" \in DOMAIN tb.t
              /\ "fastleave" \in JsonFields(outJson)
                    <=> "IFLA_BRPORT_FAST_LEAVE" \in DOMAIN tb.t

C10_Witness ==
    /\ pc = "print_both"
    /\ tb.entity = "brport"
    /\ DOMAIN tb.t = {"IFLA_BRPORT_FAST_LEAVE", "IFLA_BRPORT_MODE"}
    /\ JsonFields(outJson) = {"hairpin", "fastleave"}
    /\ TextFields(outText) = {"hairpin", "fastleave", "mcast_fast_leave"}

====
